---- MODULE Spec2Model ----
(***************************************************************************)
(* Model of the SPX dataset padding job: the master trading day list       *)
(* (SpxDayTime.py), the early-close filter (filter_early_close_data.py),   *)
(* the padding of missing entry times (pad_datetime.py) and the per-file   *)
(* steps of the worker (padding.py).                                       *)
(*                                                                         *)
(* Representation of values:                                               *)
(*   - a date string 'YYYY-MM-DD' is the triple <<y, m, d>>;               *)
(*   - a datetime.date / midnight datetime is a day ordinal (an integer    *)
(*     that grows with the calendar; only order and year are ever used);   *)
(*   - a time string 'HH:MM' is the pair <<h, m>>;                         *)
(*   - a text timestamp 'YYYY-MM-DD HH:MM:SS' (a cell of a CSV file) is    *)
(*     the 6-tuple <<y, m, d, H, M, S>>;                                   *)
(*   - a Timestamp (datetime64 cell) is ordinal * 86400 + second of day;   *)
(*   - a DataFrame is [columns, dtype, rows]: the set of column names, the *)
(*     dtype of its EntryTime column ("object" for text, "datetime64"),    *)
(*     and the sequence of rows, each a function from columns to cells.    *)
(***************************************************************************)
EXTENDS Integers, Sequences, FiniteSets, TLC

\* Largest number of rows of an input CSV file.
MaxRows == 2

\* The supported range of years of the master list.
FirstSupportedYear == 2023
LastSupportedYear == 2025

(***************************************************************************)
(* Dates and times                                                         *)
(***************************************************************************)

\* datetime.datetime.strptime(s, "%Y-%m-%d"): the day ordinal of a date string.
strptime(s) == ((s[1] - 2022) * 12 + (s[2] - 1)) * 31 + (s[3] - 1)

\* .year of a day ordinal.
year(day) == 2022 + (day \div (12 * 31))

\* datetime.time.fromisoformat(time + ":00"): second of day of 'HH:MM'.
fromisoformat(time) == time[1] * 3600 + time[2] * 60

\* datetime.datetime.combine(day, time).
combine(day, time) == day * 86400 + time

\* Timestamp.date(): the day ordinal of a Timestamp.
date(ts) == ts \div 86400

\* pd.to_datetime of one text timestamp 'YYYY-MM-DD HH:MM:SS'.
parse_datetime(text) ==
    combine(strptime(<<text[1], text[2], text[3]>>),
            text[4] * 3600 + text[5] * 60 + text[6])

(***************************************************************************)
(* Inputs the job is run on                                                *)
(***************************************************************************)

\* Dates given as --s_date / --e_date and found in input files.
SampleDates ==
    { <<2022, 12, 30>>, <<2023, 1, 3>>, <<2023, 7, 3>>,
      <<2025, 12, 31>>, <<2026, 1, 2>> }

\* Times of day found in input files.
SampleClockTimes == { <<0, 0, 0>>, <<9, 33, 0>> }

\* The calendar (CBOE_Index_Options sessions) and config.yaml
\* (spx_day_time_config) the job may run with.
Environments ==
    { [ sessions         |-> { strptime(d) : d \in SampleDates },
        early_close_days |-> << >>,
        special_holidays |-> << >>,
        valid_times      |-> << <<9, 33>> >> ],
      [ sessions         |-> { strptime(d) : d \in SampleDates },
        early_close_days |-> << <<2023, 7, 3>> >>,
        special_holidays |-> << >>,
        valid_times      |-> << <<0, 0>>, <<9, 33>> >> ],
      [ sessions         |-> { strptime(d) : d \in SampleDates \ { <<2023, 1, 3>> } },
        early_close_days |-> << <<2023, 7, 3>> >>,
        special_holidays |-> << <<2025, 12, 31>>, <<2023, 7, 3>> >>,
        valid_times      |-> << <<9, 33>> >> ],
      [ sessions         |-> { strptime(d) : d \in SampleDates },
        early_close_days |-> << >>,
        special_holidays |-> << <<2023, 1, 3>> >>,
        valid_times      |-> << <<9, 33>>, <<0, 0>> >> ] }

(***************************************************************************)
(* Helpers on sets and sequences                                           *)
(***************************************************************************)

Range(s) == { s[i] : i \in 1..Len(s) }

Min(S) == CHOOSE x \in S : \A y \in S : x <= y

\* The elements of a finite set of integers in ascending order.
RECURSIVE Ascending(_)
Ascending(S) ==
    IF S = {} THEN << >>
    ELSE LET x == Min(S) IN <<x>> \o Ascending(S \ {x})

(***************************************************************************)
(* SpxDayTime.generate_master_trading_day_list                             *)
(***************************************************************************)

\* cboe.valid_days(start_date, end_date): the sessions of the calendar
\* between the two days, in ascending order.
valid_days(env, start, end) ==
    Ascending({ d \in env.sessions : start <= d /\ d <= end })

\* The days of a configured list of date strings.
config_days(list) == { strptime(list[i]) : i \in 1..Len(list) }

\* The inner loop: one entry per configured time, in configured order.
RECURSIVE entries_of_day(_, _)
entries_of_day(day, times) ==
    IF times = << >> THEN << >>
    ELSE <<combine(day, fromisoformat(Head(times)))>>
             \o entries_of_day(day, Tail(times))

\* Variant with a fault: special holidays are not skipped.
IsExcludedDay_early_only(env, day) ==
    day \in config_days(env.early_close_days)

\* The test that skips early-close days and special holidays.
IsExcludedDay(env, day) ==
    \/ day \in config_days(env.early_close_days)
    \/ day \in config_days(env.special_holidays)

\* The outer loop over the valid trading days.
RECURSIVE trading_days(_, _)
trading_days(env, days) ==
    IF days = << >> THEN << >>
    ELSE (IF IsExcludedDay(env, Head(days)) THEN << >>
          ELSE entries_of_day(Head(days), env.valid_times))
             \o trading_days(env, Tail(days))

\* Variant with a fault: the comparison is the wrong way round.
IsInvalidRange_reversed(start, end) == end > start

\* The first check of the range: start_date later than end_date.
IsInvalidRange(start, end) == start > end

\* Variant with a fault: both dates have to be outside the range.
IsUnsupportedRange_both(start, end) ==
    year(start) < FirstSupportedYear /\ year(end) > LastSupportedYear

\* The second check of the range: outside 2023-2025.
IsUnsupportedRange(start, end) ==
    year(start) < FirstSupportedYear \/ year(end) > LastSupportedYear

\* The function: the error raised ("none" when it returns) and the
\* SpxDayTime column of the returned DataFrame.
generate_master_trading_day_list(env, start_date, end_date) ==
    LET start == strptime(start_date)
        end   == strptime(end_date)
    IN  IF IsInvalidRange(start, end)
        THEN [error |-> "InvalidRangeError", SpxDayTime |-> << >>]
        ELSE IF IsUnsupportedRange(start, end)
        THEN [error |-> "UnsupportedRangeError", SpxDayTime |-> << >>]
        ELSE [error |-> "none",
              SpxDayTime |-> trading_days(env, valid_days(env, start, end))]

(***************************************************************************)
(* DataFrames                                                              *)
(***************************************************************************)

\* The columns of the rows pad_entry_times builds.
PaddedColumns ==
    { "EntryTime", "TradeID", "OptionType", "Delta", "ShortStrike",
      "LongStrike", "Width", "Premium", "ProfitTarget", "ProfitDateTime",
      "ProfitPrice", "StopLossDateTime", "StopLossTarget", "StopLossPrice",
      "IsWin", "Outcome", "ProfitLoss", "ProfitLossAfterSlippage",
      "CommissionFees", "Slippage", "LossMultiple", "TradesToday", "VIX",
      "OpenDate", "OpenTime", "CloseDate", "CloseTime" }

\* The columns pad_entry_times fills with 0; it fills the others with "".
ZeroColumns == { "TradeID", "ProfitLoss", "ProfitLossAfterSlippage" }

\* The header of an input file: the columns of the test data, or those and
\* one more column of the data source.
Schemas == { PaddedColumns, PaddedColumns \cup { "Strategy" } }

\* TradeID of the first row of an input file; rows are numbered from it.
FirstTradeIDs == { 0, 1 }

\* Text timestamps found in the EntryTime column of input files.
EntryTimeTexts ==
    { d \o t : d \in SampleDates, t \in SampleClockTimes }

\* One row of an input file: a genuine trade.
CsvRow(columns, entry_time, trade_id) ==
    [ c \in columns |->
        IF c = "EntryTime" THEN entry_time
        ELSE IF c = "TradeID" THEN trade_id
        ELSE IF c \in ZeroColumns THEN 0 - trade_id - 1
        ELSE "P" ]

\* The input files: pd.read_csv leaves EntryTime as text (dtype object).
CsvFiles ==
    UNION { { [ columns |-> columns,
                dtype   |-> "object",
                rows    |-> [ i \in 1..n |->
                                CsvRow(columns, times[i], first + i - 1) ] ]
              : times \in [1..n -> EntryTimeTexts] }
            : n \in 0..MaxRows, columns \in Schemas, first \in FirstTradeIDs }

NoFrame == [ columns |-> {}, dtype |-> "object", rows |-> << >> ]

\* df['EntryTime'] = pd.to_datetime(df['EntryTime']): text cells are parsed,
\* Timestamp cells are kept.
to_datetime(df) ==
    IF df.dtype = "datetime64" THEN df
    ELSE [ df EXCEPT
             !.dtype = "datetime64",
             !.rows  = [ i \in 1..Len(df.rows) |->
                           [ df.rows[i] EXCEPT
                               !.EntryTime = parse_datetime(df.rows[i].EntryTime) ] ] ]

\* The EntryTime column as a sequence.
EntryTimes(df) == [ i \in 1..Len(df.rows) |-> df.rows[i].EntryTime ]

(***************************************************************************)
(* filter_early_close_data.filter_early_close_data                         *)
(***************************************************************************)

\* pd.to_datetime(start_date + ' 00:00:00').
start_datetime_of(start_date) == parse_datetime(start_date \o <<0, 0, 0>>)

\* Variant with a fault: the range ends at midnight of the end date.
end_datetime_of_midnight(end_date) == parse_datetime(end_date \o <<0, 0, 0>>)

\* pd.to_datetime(end_date + ' 23:59:59').
end_datetime_of(end_date) == parse_datetime(end_date \o <<23, 59, 59>>)

\* Variant with a fault: the start of the range is excluded.
InDatetimeRange_open_start(entry_time, start_date, end_date) ==
    /\ entry_time > start_datetime_of(start_date)
    /\ entry_time <= end_datetime_of(end_date)

\* The mask of the date range filter.
InDatetimeRange(entry_time, start_date, end_date) ==
    /\ entry_time >= start_datetime_of(start_date)
    /\ entry_time <= end_datetime_of(end_date)

\* Variant with a fault: every row passes the master list.
isin_any(entry_time, SpxDayTime) == TRUE

\* The mask df['EntryTime'].isin(master_trading_day_list['SpxDayTime']).
isin(entry_time, SpxDayTime) == entry_time \in Range(SpxDayTime)

\* The function: both boolean masks keep the rows they select in place.
filter_early_close_data(df, SpxDayTime, start_date, end_date) ==
    LET cast == to_datetime(df)
        in_range(row) == InDatetimeRange(row.EntryTime, start_date, end_date)
        ranged == SelectSeq(cast.rows, in_range)
        in_master(row) == isin(row.EntryTime, SpxDayTime)
    IN  [ cast EXCEPT !.rows = SelectSeq(ranged, in_master) ]

(***************************************************************************)
(* pad_datetime.pad_entry_times                                            *)
(***************************************************************************)

\* "Filter only by date portion, ignoring time".
InDateWindow(ts, start_date, end_date) ==
    /\ strptime(start_date) <= date(ts)
    /\ date(ts) <= strptime(end_date)

\* Variant with a fault: the master list is not restricted to the window.
valid_entry_times_set_unwindowed(SpxDayTime, start_date, end_date) ==
    Range(SpxDayTime)

\* valid_entry_times_set.
valid_entry_times_set(SpxDayTime, start_date, end_date) ==
    { t \in Range(SpxDayTime) : InDateWindow(t, start_date, end_date) }

\* existing_entry_times_set, of a frame whose EntryTime has been cast.
existing_entry_times_set(df, start_date, end_date) ==
    { t \in Range(EntryTimes(df)) : InDateWindow(t, start_date, end_date) }

\* Variant with a fault: the existing entry times are not taken out.
missing_entry_times_set_all(df, SpxDayTime, start_date, end_date) ==
    valid_entry_times_set(SpxDayTime, start_date, end_date)

\* missing_entry_times_set.
missing_entry_times_set(df, SpxDayTime, start_date, end_date) ==
    valid_entry_times_set(SpxDayTime, start_date, end_date)
        \ existing_entry_times_set(df, start_date, end_date)

\* Variant with a fault: the placeholder is given a TradeID of its own.
PaddedRow_with_id(missing_time) ==
    [ c \in PaddedColumns |->
        IF c = "EntryTime" THEN missing_time
        ELSE IF c = "TradeID" THEN 1
        ELSE IF c \in ZeroColumns THEN 0
        ELSE "" ]

\* One element of padded_rows.
PaddedRow(missing_time) ==
    [ c \in PaddedColumns |->
        IF c = "EntryTime" THEN missing_time
        ELSE IF c \in ZeroColumns THEN 0
        ELSE "" ]

\* Variant with a fault: only the columns of the padded rows are carried over.
Reindexed_padded_only(row, columns) ==
    [ c \in columns |->
        IF c \in DOMAIN row /\ c \in PaddedColumns THEN row[c] ELSE "NaN" ]

\* A row of one frame in the columns of the concatenation: pd.concat fills
\* the columns the row's frame does not have with NaN.
Reindexed(row, columns) ==
    [ c \in columns |-> IF c \in DOMAIN row THEN row[c] ELSE "NaN" ]

\* pd.concat([df, padded_df], ignore_index=True); padded_df has no column
\* when padded_rows is empty.
concat(df, padded_rows) ==
    LET columns == df.columns
                     \cup (IF padded_rows = << >> THEN {} ELSE PaddedColumns)
        rows == df.rows \o padded_rows
    IN  [ df EXCEPT
            !.columns = columns,
            !.rows    = [ i \in 1..Len(rows) |-> Reindexed(rows[i], columns) ] ]

\* The orders in which the rows at the given indices may come out of the
\* sort: a row of least EntryTime first, then the others in such an order.
RECURSIVE sorted_orders(_, _)
sorted_orders(rows, indices) ==
    IF indices = {} THEN { << >> }
    ELSE LET least == { i \in indices :
                          \A j \in indices :
                              rows[i].EntryTime <= rows[j].EntryTime }
         IN  UNION { { <<rows[i]>> \o rest
                         : rest \in sorted_orders(rows, indices \ {i}) }
                     : i \in least }

\* Variant with a fault: the rows are left in the order of the concatenation.
sort_values_skipped(rows) == { rows }

\* df.sort_values(by="EntryTime").reset_index(drop=True): the default sort is
\* not stable, so rows of equal EntryTime come out in any order.
sort_values(rows) == sorted_orders(rows, 1..Len(rows))

\* The function: every table it may return.
pad_entry_times(df, SpxDayTime, start_date, end_date) ==
    LET cast    == to_datetime(df)
        missing == Ascending(
                       missing_entry_times_set(cast, SpxDayTime,
                                               start_date, end_date))
        padded_rows == [ i \in 1..Len(missing) |-> PaddedRow(missing[i]) ]
        appended == concat(cast, padded_rows)
    IN  { [ appended EXCEPT !.rows = sorted ]
            : sorted \in sort_values(appended.rows) }

\* The most .csv files in the source directory.
MaxFiles == 2

\* The names of the .csv files.
CsvNames == 1..MaxFiles

(***************************************************************************)
(* The job: main builds the master list, a worker processes one file       *)
(***************************************************************************)

VARIABLES
    env,                      \* the calendar and config.yaml
    s_date, e_date,           \* --s_date and --e_date
    pc,                       \* where the job is
    error,                    \* the error main ended with, or "none"
    master_trading_day_list,  \* the SpxDayTime column of the master list
    master_range,             \* the dates the master list was generated for
    csv_df,                   \* the input file as read
    filtered_df,              \* what filter_early_close_data returned
    padded_df,                \* what pad_entry_times returned
    SpxDayTime_assignments,   \* assignments a stage made to the SpxDayTime
                              \* column of the master list it was given
    cpu_count,                \* multiprocessing.cpu_count()
    old_output_dir,           \* an earlier run left an output directory
    output_dir,               \* "old", "absent" or "new"
    src_files,                \* the .csv files of the source directory
    input_files,              \* the tasks not yet handed to a pool process
    status,                   \* where the worker call of each file is
    artifact,                 \* the output file of each input file
    error_log,                \* the files a worker logged an error for
    starts,                   \* the worker calls made for each file
    grid_calls,               \* the calls of the generator made by main
    failed_at                 \* the step at which main raised, or "none"

\* The state of the pool and of the directories.
job_vars == << cpu_count, old_output_dir, output_dir, src_files, input_files,
               status, artifact, error_log, starts, grid_calls, failed_at >>

vars == << env, s_date, e_date, pc, error, master_trading_day_list,
           master_range, csv_df, filtered_df, padded_df,
           SpxDayTime_assignments, job_vars >>

Init ==
    /\ env \in Environments
    /\ s_date \in SampleDates
    /\ e_date \in SampleDates
    /\ pc = "main"
    /\ error = "none"
    /\ master_trading_day_list = << >>
    /\ master_range = << >>
    /\ csv_df = NoFrame
    /\ filtered_df = NoFrame
    /\ padded_df = NoFrame
    /\ SpxDayTime_assignments = 0
    /\ cpu_count = 2
    /\ old_output_dir = FALSE
    /\ output_dir = "absent"
    /\ src_files = {}
    /\ input_files = << >>
    /\ status = [f \in CsvNames |-> "none"]
    /\ artifact = [f \in CsvNames |-> "none"]
    /\ error_log = {}
    /\ starts = [f \in CsvNames |-> 0]
    /\ grid_calls = 0
    /\ failed_at = "none"

\* main: generate_master_trading_day_list(args.s_date, args.e_date); an
\* error is logged and raised again, which ends the job.
GenerateMasterList ==
    /\ pc = "main"
    /\ LET result == generate_master_trading_day_list(env, s_date, e_date)
       IN  /\ error' = result.error
           /\ master_trading_day_list' = result.SpxDayTime
           /\ pc' = IF result.error = "none" THEN "grid" ELSE "failed"
    /\ master_range' = <<s_date, e_date>>
    /\ UNCHANGED << env, s_date, e_date, csv_df, filtered_df, padded_df,
                    SpxDayTime_assignments, job_vars >>

\* The range of a master list saved by an earlier run.
SavedRange == << <<2023, 1, 3>>, <<2025, 12, 31>> >>

\* A master list saved for a wider range is read back (pd.read_csv and
\* pd.to_datetime of its SpxDayTime) and used with the window of the run,
\* for the windows the generator accepts.
ReadMasterList ==
    /\ pc = "main"
    /\ generate_master_trading_day_list(env, s_date, e_date).error = "none"
    /\ master_trading_day_list' =
          generate_master_trading_day_list(env, SavedRange[1],
                                           SavedRange[2]).SpxDayTime
    /\ master_range' = SavedRange
    /\ pc' = "grid"
    /\ UNCHANGED << env, s_date, e_date, error, csv_df, filtered_df, padded_df,
                    SpxDayTime_assignments, job_vars >>

\* worker: df = pd.read_csv(input_file).
ReadCsv ==
    /\ pc = "grid"
    /\ \E file \in CsvFiles : csv_df' = file
    /\ pc' = "loaded"
    /\ UNCHANGED << env, s_date, e_date, error, master_trading_day_list,
                    master_range, filtered_df, padded_df,
                    SpxDayTime_assignments, job_vars >>

\* worker, step 1: df = filter_early_close_data(df, ...).  The filter
\* assigns pd.to_datetime of the SpxDayTime column of the master list back
\* to that column; the values are Timestamps already and stay as they are.
Filter ==
    /\ pc = "loaded"
    /\ filtered_df' = filter_early_close_data(csv_df, master_trading_day_list,
                                              s_date, e_date)
    /\ pc' = "filtered"
    /\ UNCHANGED << env, s_date, e_date, error, master_trading_day_list,
                    master_range, csv_df, padded_df, job_vars >>
    /\ SpxDayTime_assignments' = SpxDayTime_assignments + 1

\* worker, step 2: df = pad_entry_times(df, ...) on the filtered frame.
Pad ==
    /\ pc = "filtered"
    /\ padded_df' \in pad_entry_times(filtered_df, master_trading_day_list,
                                      s_date, e_date)
    /\ pc' = "padded"
    /\ UNCHANGED << env, s_date, e_date, error, master_trading_day_list,
                    master_range, csv_df, filtered_df,
                    SpxDayTime_assignments, job_vars >>

\* pad_entry_times called on a frame as read, as its test does.
PadUnfiltered ==
    /\ pc = "loaded"
    /\ padded_df' \in pad_entry_times(csv_df, master_trading_day_list,
                                      s_date, e_date)
    /\ pc' = "padded_unfiltered"
    /\ UNCHANGED << env, s_date, e_date, error, master_trading_day_list,
                    master_range, csv_df, filtered_df,
                    SpxDayTime_assignments, job_vars >>

Next ==
    \/ GenerateMasterList
    \/ ReadMasterList
    \/ ReadCsv
    \/ Filter
    \/ Pad
    \/ PadUnfiltered

Spec == Init /\ [][Next]_vars

(***************************************************************************)
(* The job over a directory: main prepares the master list and the output  *)
(* directory and maps worker over the input files with a Pool              *)
(***************************************************************************)

\* The most cores of the machine.
MaxCores == 3

\* The --s_date and --e_date of the runs over a directory: an accepted
\* range, a reversed one and one that starts before the supported years.
JobRanges ==
    { << <<2023, 1, 3>>, <<2023, 7, 3>> >>,
      << <<2023, 7, 3>>, <<2023, 1, 3>> >>,
      << <<2022, 12, 30>>, <<2023, 1, 3>> >> }

\* What can go wrong in the generator besides the range checks: config.yaml
\* cannot be loaded, or the calendar fails.
GeneratorFaults == { "none", "ConfigError", "CalendarUnavailableError" }

\* The error generate_master_trading_day_list ends with: load_config comes
\* before the range checks and the calendar after them.
generator_error(fault, range_error) ==
    IF fault = "ConfigError" THEN fault
    ELSE IF range_error # "none" THEN range_error
    ELSE fault

\* Variant with a fault: main logs the error of the generator and goes on.
AfterGenerate_goes_on(err) == "save_list"

\* Where main is after the call of the generator: an error is logged and
\* raised again.
AfterGenerate(err) == IF err = "none" THEN "save_list" ELSE "failed"

\* Pool(processes=cpu_count() - 1).
processes == cpu_count - 1

\* The positions of a worker call: before read_csv, before the filter,
\* before the padding, before to_csv opens the output file, and while
\* to_csv writes it.
WorkerSteps == << "started", "loaded", "filtered", "padded", "writing" >>

\* The position after a step of the worker that raised nothing.
after_step(step) ==
    CASE step = "started"  -> "loaded"
      [] step = "loaded"   -> "filtered"
      [] step = "filtered" -> "padded"
      [] step = "padded"   -> "writing"
      [] step = "writing"  -> "written"

\* Variant with a fault: df.to_csv is outside the try block.
InTryBlock_without_to_csv(step) ==
    step \in { "started", "loaded", "filtered" }

\* The steps inside the try block of worker.
InTryBlock(step) == step \in Range(WorkerSteps)

\* The output file after a step: to_csv creates the file when it opens it
\* and the file is whole when to_csv returns.
artifact_after(step, current) ==
    CASE step = "padded"  -> "partial"
      [] step = "writing" -> "complete"
      [] OTHER            -> current

\* The files a pool process is working on.
in_progress == { f \in CsvNames : status[f] \in Range(WorkerSteps) }

\* The orders os.listdir can return the files in.
listdir(files) ==
    { order \in [1..Cardinality(files) -> files] :
        \A i, j \in 1..Cardinality(files) : i # j => order[i] # order[j] }

InitJob ==
    /\ env \in Environments
    /\ \E range \in JobRanges : s_date = range[1] /\ e_date = range[2]
    /\ pc = "generate"
    /\ error = "none"
    /\ master_trading_day_list = << >>
    /\ master_range = << >>
    /\ csv_df = NoFrame
    /\ filtered_df = NoFrame
    /\ padded_df = NoFrame
    /\ SpxDayTime_assignments = 0
    /\ cpu_count \in 1..MaxCores
    /\ old_output_dir \in BOOLEAN
    /\ output_dir = IF old_output_dir THEN "old" ELSE "absent"
    /\ src_files \in SUBSET CsvNames
    /\ input_files = << >>
    /\ status = [f \in CsvNames |-> "none"]
    /\ artifact = [f \in CsvNames |-> "none"]
    /\ error_log = {}
    /\ starts = [f \in CsvNames |-> 0]
    /\ grid_calls = 0
    /\ failed_at = "none"

\* What no step of the job over a directory changes.
job_fixed == << env, s_date, e_date, csv_df, filtered_df, padded_df,
                SpxDayTime_assignments, cpu_count, old_output_dir,
                src_files >>

\* main raises at its current step: the error is logged and raised again.
MainRaises ==
    /\ pc' = "failed"
    /\ failed_at' = pc

\* main: master_trading_day_list = generate_master_trading_day_list(...).
JobGenerate ==
    /\ pc = "generate"
    /\ grid_calls' = grid_calls + 1
    /\ \E fault \in GeneratorFaults :
          LET result == generate_master_trading_day_list(env, s_date, e_date)
              err == generator_error(fault, result.error)
          IN  /\ error' = err
              /\ master_trading_day_list' =
                    IF err = "none" THEN result.SpxDayTime ELSE << >>
              /\ pc' = AfterGenerate(err)
              /\ failed_at' = IF err = "none" THEN "none" ELSE "generate"
    /\ master_range' = << s_date, e_date >>
    /\ UNCHANGED << job_fixed, output_dir, input_files, status, artifact,
                    error_log, starts >>

\* main: master_trading_day_list.to_csv("master_trading_day_list.csv").
SaveMasterList ==
    /\ pc = "save_list"
    /\ \/ pc' = "rmtree" /\ UNCHANGED failed_at
       \/ MainRaises
    /\ UNCHANGED << job_fixed, error, master_trading_day_list, master_range,
                    output_dir, input_files, status, artifact, error_log,
                    starts, grid_calls >>

\* main: if os.path.exists(output_dir): shutil.rmtree(output_dir).
RemoveOutputDir ==
    /\ pc = "rmtree"
    /\ \/ /\ output_dir = "absent"
          /\ pc' = "makedirs"
          /\ UNCHANGED << output_dir, failed_at >>
       \/ /\ output_dir # "absent"
          /\ output_dir' = "absent"
          /\ pc' = "makedirs"
          /\ UNCHANGED failed_at
       \/ /\ output_dir # "absent"
          /\ MainRaises
          /\ UNCHANGED output_dir
    /\ UNCHANGED << job_fixed, error, master_trading_day_list, master_range,
                    input_files, status, artifact, error_log, starts,
                    grid_calls >>

\* main: os.makedirs(output_dir).
MakeOutputDir ==
    /\ pc = "makedirs"
    /\ \/ /\ output_dir' = "new"
          /\ pc' = "listdir"
          /\ UNCHANGED failed_at
       \/ /\ MainRaises
          /\ UNCHANGED output_dir
    /\ UNCHANGED << job_fixed, error, master_trading_day_list, master_range,
                    input_files, status, artifact, error_log, starts,
                    grid_calls >>

\* main: input_files = [f for f in os.listdir(src_dir) if f.endswith('.csv')].
ListInputFiles ==
    /\ pc = "listdir"
    /\ \/ /\ input_files' \in listdir(src_files)
          /\ pc' = "pool"
          /\ UNCHANGED failed_at
       \/ /\ MainRaises
          /\ UNCHANGED input_files
    /\ UNCHANGED << job_fixed, error, master_trading_day_list, master_range,
                    output_dir, status, artifact, error_log, starts,
                    grid_calls >>

\* main: with Pool(processes=int(multiprocessing.cpu_count() - 1)) as pool;
\* Pool raises ValueError when processes is less than 1.
CreatePool ==
    /\ pc = "pool"
    /\ IF processes >= 1
          THEN pc' = "imap" /\ UNCHANGED failed_at
          ELSE MainRaises
    /\ UNCHANGED << job_fixed, error, master_trading_day_list, master_range,
                    output_dir, input_files, status, artifact, error_log,
                    starts, grid_calls >>

\* pool.imap_unordered: a free pool process takes the next task and calls
\* worker on it.
StartWorker ==
    /\ pc = "imap"
    /\ input_files # << >>
    /\ Cardinality(in_progress) < processes
    /\ LET f == Head(input_files)
       IN  /\ status' = [status EXCEPT ![f] = "started"]
           /\ starts' = [starts EXCEPT ![f] = @ + 1]
    /\ input_files' = Tail(input_files)
    /\ UNCHANGED << job_fixed, pc, error, master_trading_day_list,
                    master_range, output_dir, artifact, error_log,
                    grid_calls, failed_at >>

\* worker: the next of read_csv, filter_early_close_data, pad_entry_times
\* and the two halves of to_csv goes through.
WorkerStep(f) ==
    /\ pc = "imap"
    /\ f \in in_progress
    /\ status' = [status EXCEPT ![f] = after_step(status[f])]
    /\ artifact' = [artifact EXCEPT ![f] = artifact_after(status[f], @)]
    /\ UNCHANGED << job_fixed, pc, error, master_trading_day_list,
                    master_range, output_dir, input_files, error_log, starts,
                    grid_calls, failed_at >>

\* worker: the next step raises.  Inside the try block the error is logged
\* and the call returns; the output file stays as the step left it.  An
\* error outside the try block comes out of imap_unordered in main.
WorkerRaises(f) ==
    /\ pc = "imap"
    /\ f \in in_progress
    /\ IF InTryBlock(status[f])
          THEN /\ status' = [status EXCEPT ![f] = "error"]
               /\ error_log' = error_log \cup { f }
               /\ UNCHANGED << pc, failed_at >>
          ELSE /\ status' = [status EXCEPT ![f] = "raised"]
               /\ MainRaises
               /\ UNCHANGED error_log
    /\ UNCHANGED << job_fixed, error, master_trading_day_list, master_range,
                    output_dir, input_files, artifact, starts, grid_calls >>

\* main: imap_unordered is exhausted, the Pool is left and "Main function
\* completed" is logged.
Complete ==
    /\ pc = "imap"
    /\ input_files = << >>
    /\ in_progress = {}
    /\ pc' = "done"
    /\ UNCHANGED << job_fixed, error, master_trading_day_list, master_range,
                    output_dir, input_files, status, artifact, error_log,
                    starts, grid_calls, failed_at >>

NextJob ==
    \/ JobGenerate
    \/ SaveMasterList
    \/ RemoveOutputDir
    \/ MakeOutputDir
    \/ ListInputFiles
    \/ CreatePool
    \/ StartWorker
    \/ \E f \in CsvNames : WorkerStep(f)
    \/ \E f \in CsvNames : WorkerRaises(f)
    \/ Complete

SpecJob == InitJob /\ [][NextJob]_vars

\* The steps of main.
MainStep ==
    \/ JobGenerate
    \/ SaveMasterList
    \/ RemoveOutputDir
    \/ MakeOutputDir
    \/ ListInputFiles
    \/ CreatePool
    \/ Complete

\* Fair scheduling: main goes on while it can, a free pool process takes
\* the next task, and a worker call goes on to its next step or raises.
SpecJobFair ==
    /\ SpecJob
    /\ WF_vars(MainStep)
    /\ WF_vars(StartWorker)
    /\ \A f \in CsvNames : WF_vars(WorkerStep(f) \/ WorkerRaises(f))

(***************************************************************************)
(* Properties                                                              *)
(***************************************************************************)

\* Order of two date strings 'YYYY-MM-DD', field by field.
DateTextBefore(a, b) ==
    \/ a[1] < b[1]
    \/ a[1] = b[1] /\ a[2] < b[2]
    \/ a[1] = b[1] /\ a[2] = b[2] /\ a[3] < b[3]

\* The year of a date string lies in 2023-2025.
YearTextSupported(a) == a[1] \in FirstSupportedYear..LastSupportedYear

\* main has called generate_master_trading_day_list.
Generated == pc # "main" /\ master_range = <<s_date, e_date>>

\* The calendar sessions of a range that are on neither configured list.
FullSessions(first, last) ==
    { d \in env.sessions :
        /\ strptime(first) <= d
        /\ d <= strptime(last)
        /\ \A i \in 1..Len(env.early_close_days) :
              strptime(env.early_close_days[i]) # d
        /\ \A i \in 1..Len(env.special_holidays) :
              strptime(env.special_holidays[i]) # d }

\* C7 Grid cardinality: a master list that was generated has as many rows as
\* the range has calendar sessions on neither the early-close list nor the
\* special-holiday list, times the number of configured times.
C7_GridCardinality ==
    (pc # "main" /\ pc # "failed") =>
        Len(master_trading_day_list) =
            Cardinality(FullSessions(master_range[1], master_range[2]))
                * Len(env.valid_times)

\* A list was generated for a range with an excluded session and a full one.
C7_Witness ==
    /\ pc = "grid"
    /\ Generated
    /\ Len(env.valid_times) = 2
    /\ Len(master_trading_day_list) = 2
    /\ \E d \in env.sessions :
          /\ strptime(s_date) <= d /\ d <= strptime(e_date)
          /\ d \notin FullSessions(s_date, e_date)

\* C9 Invalid range: once main has called the generator with start_date
\* later than end_date, it has failed with InvalidRangeError and there is no
\* master list, whatever the years of the two dates.
C9_InvalidRange ==
    (Generated /\ DateTextBefore(e_date, s_date)) =>
        /\ pc = "failed"
        /\ error = "InvalidRangeError"
        /\ master_trading_day_list = << >>

\* The generator was called with start_date after the supported years and
\* end_date before them.
C9_Witness ==
    /\ Generated
    /\ DateTextBefore(e_date, s_date)
    /\ s_date[1] > LastSupportedYear
    /\ e_date[1] < FirstSupportedYear
    /\ error = "InvalidRangeError"

\* C10 Unsupported range: once main has called the generator with
\* start_date <= end_date, it has failed with UnsupportedRangeError exactly
\* when one of the two dates is outside 2023-2025, and then there is no
\* master list.
C10_UnsupportedRange ==
    (Generated /\ ~DateTextBefore(e_date, s_date)) =>
        /\ (error = "UnsupportedRangeError")
              <=> (~YearTextSupported(s_date) \/ ~YearTextSupported(e_date))
        /\ (error = "UnsupportedRangeError")
              => (pc = "failed" /\ master_trading_day_list = << >>)

\* The generator rejected a range whose start_date is after the supported
\* years.
C10_Witness ==
    /\ Generated
    /\ ~DateTextBefore(e_date, s_date)
    /\ s_date[1] > LastSupportedYear
    /\ pc = "failed"
    /\ error = "UnsupportedRangeError"

\* The generator rejected a range whose end_date is before the supported
\* years.
C10_WitnessBefore ==
    /\ Generated
    /\ ~DateTextBefore(e_date, s_date)
    /\ e_date[1] < FirstSupportedYear
    /\ error = "UnsupportedRangeError"

\* pad_entry_times has returned.
Padded == pc \in { "padded", "padded_unfiltered" }

\* The input file with its EntryTime column as Timestamps.
ParsedCsv == to_datetime(csv_df)

\* The frame pad_entry_times was called on.
PadInput == IF pc = "padded" THEN filtered_df ELSE ParsedCsv

\* The date of a Timestamp lies in [s_date, e_date].
DateInWindow(t) ==
    strptime(s_date) <= date(t) /\ date(t) <= strptime(e_date)

\* The Timestamps of the master list whose date lies in the window.
GridInWindow == { t \in Range(master_trading_day_list) : DateInWindow(t) }

\* The frame has one record for each in-window grid point and no other.
ExactlyGrid(df) ==
    /\ Len(df.rows) = Cardinality(GridInWindow)
    /\ Range(EntryTimes(df)) = GridInWindow

\* The timestamps of the frame are distinct in-window grid points.
DistinctOnGrid(df) ==
    /\ \A i \in 1..Len(df.rows) : df.rows[i].EntryTime \in GridInWindow
    /\ \A i, j \in 1..Len(df.rows) :
          i # j => df.rows[i].EntryTime # df.rows[j].EntryTime

\* No in-window grid point is the timestamp of two rows of the frame.
NoRepeatedGridTime(df) ==
    \A i, j \in 1..Len(df.rows) :
        (i # j /\ df.rows[i].EntryTime = df.rows[j].EntryTime)
            => df.rows[i].EntryTime \notin GridInWindow

\* C1 as stated: for every input table the timestamps pad_entry_times
\* returns are exactly the in-window grid points, each once.
C1_AsStated == Padded => ExactlyGrid(padded_df)

\* C1 Padding completeness, amended: for every input table whose timestamps
\* are distinct in-window grid points, the timestamps pad_entry_times
\* returns are exactly the in-window grid points, each once.
C1_PaddingCompleteness ==
    (Padded /\ DistinctOnGrid(PadInput)) => ExactlyGrid(padded_df)

\* pad_entry_times was called on a file as read, of rows on distinct
\* in-window grid points, with grid points missing and grid points outside
\* the window.
C1_Witness ==
    /\ pc = "padded_unfiltered"
    /\ Len(csv_df.rows) > 0
    /\ DistinctOnGrid(ParsedCsv)
    /\ Len(padded_df.rows) > Len(csv_df.rows)
    /\ GridInWindow # Range(master_trading_day_list)

\* C2 as stated: for every input table, filter_early_close_data and then
\* pad_entry_times return one record per in-window grid point and no other.
C2_AsStated == pc = "padded" => ExactlyGrid(padded_df)

\* C2 Per-file pipeline, amended: for every input table in which no
\* in-window grid point is the timestamp of two rows (off-grid rows and
\* out-of-window rows allowed), filter_early_close_data and then
\* pad_entry_times return one record per in-window grid point and no other.
C2_Pipeline ==
    (pc = "padded" /\ NoRepeatedGridTime(ParsedCsv)) => ExactlyGrid(padded_df)

\* The pipeline ran on a file with a row that is kept and a row that is off
\* the grid or out of the window, and placeholders were added.
C2_Witness ==
    /\ pc = "padded"
    /\ Len(csv_df.rows) = 2
    /\ Len(filtered_df.rows) = 1
    /\ Len(padded_df.rows) > 1

\* The pipeline ran on a file with the same off-grid timestamp twice.
C2_WitnessRepeatedOffGrid ==
    /\ pc = "padded"
    /\ Len(csv_df.rows) = 2
    /\ csv_df.rows[1].EntryTime = csv_df.rows[2].EntryTime
    /\ ParsedCsv.rows[1].EntryTime \notin GridInWindow
    /\ Len(padded_df.rows) > 0

\* The row of the input file is in the window of the filter and on the grid.
KeptByFilter(row) ==
    /\ row.EntryTime >= strptime(s_date) * 86400
    /\ row.EntryTime <= strptime(e_date) * 86400 + (23 * 3600 + 59 * 60 + 59)
    /\ \E k \in 1..Len(master_trading_day_list) :
          master_trading_day_list[k] = row.EntryTime

\* The indices of the rows of the input file the filter is to keep.
KeptIndices ==
    { i \in 1..Len(csv_df.rows) : KeptByFilter(ParsedCsv.rows[i]) }

C3_WitnessOrder ==
    /\ pc = "filtered"
    /\ Len(filtered_df.rows) = 2
    /\ filtered_df.rows[1].EntryTime > filtered_df.rows[2].EntryTime

\* C4 Sortedness: the table pad_entry_times returns is non-decreasing by
\* EntryTime from first row to last.
C4_Sorted ==
    Padded =>
        \A i, j \in 1..Len(padded_df.rows) :
            i < j => padded_df.rows[i].EntryTime <= padded_df.rows[j].EntryTime

\* pad_entry_times was called on two rows in descending order and added a
\* placeholder that goes between them.
C4_Witness ==
    /\ pc = "padded_unfiltered"
    /\ Len(csv_df.rows) = 2
    /\ ParsedCsv.rows[1].EntryTime > ParsedCsv.rows[2].EntryTime
    /\ \E k \in 1..Len(padded_df.rows) :
          /\ padded_df.rows[k].EntryTime \notin Range(EntryTimes(ParsedCsv))
          /\ ParsedCsv.rows[2].EntryTime < padded_df.rows[k].EntryTime
          /\ padded_df.rows[k].EntryTime < ParsedCsv.rows[1].EntryTime

\* The rows of the output whose timestamp no row of the pad input has.
PlaceholderIndices ==
    { k \in 1..Len(padded_df.rows) :
        padded_df.rows[k].EntryTime \notin Range(EntryTimes(PadInput)) }

\* C5 Padding preserves real records: for every input table whose
\* timestamps are distinct in-window grid points, the output has every
\* input record with all its fields unchanged, the number of placeholders
\* is the number of in-window grid points minus the number of input
\* records, and the output has as many rows as in-window grid points.
C5_PreservesRecords ==
    (Padded /\ DistinctOnGrid(PadInput)) =>
        /\ \A i \in 1..Len(PadInput.rows) :
              \E k \in 1..Len(padded_df.rows) :
                  \A c \in PadInput.columns :
                      padded_df.rows[k][c] = PadInput.rows[i][c]
        /\ Cardinality(PlaceholderIndices)
              = Cardinality(GridInWindow) - Len(PadInput.rows)
        /\ Len(padded_df.rows) = Cardinality(GridInWindow)

\* pad_entry_times was called on a frame of genuine records on distinct
\* in-window grid points and added placeholders.
C5_Witness ==
    /\ Padded
    /\ Len(PadInput.rows) = 2
    /\ DistinctOnGrid(PadInput)
    /\ "Strategy" \in PadInput.columns
    /\ Cardinality(PlaceholderIndices) > 0

\* The cell is the sentinel of its column: 0 in a column of numbers that
\* pad_entry_times fills with 0, the empty string elsewhere.
IsSentinel(c, cell) == IF c \in ZeroColumns THEN cell = 0 ELSE cell = ""

\* C6 as stated: every placeholder has a sentinel in every non-timestamp
\* field of the output table, and TradeID = 0 tells it from every genuine
\* record.
C6_AsStated ==
    Padded =>
        \A k \in 1..Len(padded_df.rows) :
            IF k \in PlaceholderIndices
            THEN \A c \in padded_df.columns \ { "EntryTime" } :
                     IsSentinel(c, padded_df.rows[k][c])
            ELSE padded_df.rows[k].TradeID # 0

\* C6 Placeholder integrity, amended: every placeholder has a sentinel (0
\* or the empty string) in every non-timestamp field that pad_entry_times
\* names and NaN in a field only the input has; its TradeID is 0, which
\* tells it from every genuine record whose TradeID is not 0.
C6_PlaceholderIntegrity ==
    Padded =>
        \A k \in PlaceholderIndices :
            /\ \A c \in PaddedColumns \ { "EntryTime" } :
                  IsSentinel(c, padded_df.rows[k][c])
            /\ \A c \in padded_df.columns \ PaddedColumns :
                  padded_df.rows[k][c] = "NaN"
            /\ padded_df.rows[k].TradeID = 0
            /\ \A i \in 1..Len(padded_df.rows) :
                  padded_df.rows[i].TradeID # 0 => i \notin PlaceholderIndices

\* pad_entry_times added a placeholder to a frame that has a genuine record
\* and a column it does not name.
C6_Witness ==
    /\ Padded
    /\ PlaceholderIndices # {}
    /\ Len(PadInput.rows) > 0
    /\ "Strategy" \in padded_df.columns

\* The days on the early-close list or the special-holiday list.
ExcludedDays ==
    { strptime(env.early_close_days[i]) : i \in 1..Len(env.early_close_days) }
        \cup
    { strptime(env.special_holidays[i]) : i \in 1..Len(env.special_holidays) }

\* C8 Excluded-session drop: with a master list from the generator, no
\* record dated on an early-close day or special holiday is in the output
\* of the filter, whatever its time of day.
C8_ExcludedSessionDrop ==
    pc = "filtered" =>
        \A k \in 1..Len(filtered_df.rows) :
            date(filtered_df.rows[k].EntryTime) \notin ExcludedDays

\* The filter ran on a file with a record on an excluded day of the window
\* at a configured time, and a record of a full session that it kept.
C8_Witness ==
    /\ pc = "filtered"
    /\ Len(filtered_df.rows) = 1
    /\ \E i \in 1..Len(csv_df.rows) :
          /\ date(ParsedCsv.rows[i].EntryTime) \in ExcludedDays
          /\ DateInWindow(ParsedCsv.rows[i].EntryTime)
          /\ csv_df.rows[i].EntryTime[4] = 9
          /\ csv_df.rows[i].EntryTime[5] = 33

\* Every timestamp of the input file is a point of the master list whose
\* date lies in the window.
AllOnWindowGrid ==
    \A i \in 1..Len(ParsedCsv.rows) :
        ParsedCsv.rows[i].EntryTime \in GridInWindow

\* C11 Filter round-trip: when every timestamp of the input table is a
\* point of the window-restricted master list, filter_early_close_data
\* returns the input table: the same records with the same field values in
\* the same order, none dropped.  The EntryTime cells are compared as the
\* Timestamps the filter's pd.to_datetime makes of them.
C11_FilterRoundTrip ==
    (pc = "filtered" /\ AllOnWindowGrid) =>
        /\ filtered_df.columns = csv_df.columns
        /\ filtered_df.rows = ParsedCsv.rows

\* The filter ran on a file of two records on the window-restricted master
\* list, the later one first.
C11_Witness ==
    /\ pc = "filtered"
    /\ AllOnWindowGrid
    /\ Len(csv_df.rows) = 2
    /\ ParsedCsv.rows[1].EntryTime > ParsedCsv.rows[2].EntryTime

\* The filter ran on a file that has the same master list point twice.
C11_WitnessRepeated ==
    /\ pc = "filtered"
    /\ AllOnWindowGrid
    /\ Len(csv_df.rows) = 2
    /\ ParsedCsv.rows[1].EntryTime = ParsedCsv.rows[2].EntryTime

\* The master list as main built it for the range it covers.
MasterListAsBuilt ==
    generate_master_trading_day_list(env, master_range[1],
                                     master_range[2]).SpxDayTime

\* C15 Grid is read-only: after any filter and pad calls the master list
\* they were given has the timestamps it was built with, in the same order,
\* and no stage has assigned to its column.
C15_GridReadOnly ==
    pc \in { "grid", "loaded", "filtered", "padded", "padded_unfiltered" } =>
        /\ master_trading_day_list = MasterListAsBuilt
        /\ SpxDayTime_assignments = 0

\* The worker call of the file has ended: the output was written or an
\* error was logged.
Terminal(f) == status[f] \in { "written", "error" }

\* C12 Per-file failure isolation: in every interleaving of the worker calls
\* over the pool, an error raised while loading, filtering, padding or
\* writing a file is caught and logged in the worker call of that file: it
\* does not reach main, the calls of the other files can go on, and when
\* the job is done every file whose call raised nothing has its whole
\* output file.
C12_FailureIsolation ==
    /\ \A f \in CsvNames :
          /\ status[f] # "raised"
          /\ status[f] = "error" <=> f \in error_log
    /\ failed_at # "imap"
    /\ \A f \in in_progress : ENABLED WorkerStep(f)
    /\ pc = "done" =>
          \A f \in src_files :
              \/ status[f] = "error"
              \/ status[f] = "written" /\ artifact[f] = "complete"

\* The job is done with one file whose call raised and another whose output
\* is written.
C12_Witness ==
    /\ pc = "done"
    /\ \E f, g \in src_files :
          /\ status[f] = "error"
          /\ status[g] = "written"
          /\ artifact[g] = "complete"

\* A call has raised while the call of another file was under way in
\* another pool process.
C12_WitnessConcurrent ==
    \E f, g \in src_files :
        /\ status[f] = "error"
        /\ status[g] = "writing"
        /\ input_files = << >>
        /\ processes >= 2

\* C13 All-or-nothing output: an output file exists for an input file only
\* if its load, filter and padding raised nothing and the write completed;
\* a file whose call raised at any step, the write included, has no output
\* file, neither partial nor whole.
C13_AllOrNothing ==
    \A f \in CsvNames :
        /\ artifact[f] = "complete" => status[f] = "written"
        /\ artifact[f] # "none" => status[f] \in { "writing", "written" }

\* The output directory is as it was when the job began.
OutputDirUntouched ==
    output_dir = IF old_output_dir THEN "old" ELSE "absent"

\* C14 Grid failure aborts the job: main calls the generator once, before
\* any worker call; when the generator raises, the job has ended in error
\* with no worker call made, no output file written and the output
\* directory of an earlier run not deleted.
C14_GridFailureAborts ==
    /\ grid_calls = IF pc = "generate" THEN 0 ELSE 1
    /\ (\E f \in CsvNames : starts[f] > 0) =>
          /\ error = "none"
          /\ master_trading_day_list =
                generate_master_trading_day_list(env, s_date,
                                                 e_date).SpxDayTime
    /\ error # "none" =>
          /\ pc = "failed"
          /\ failed_at = "generate"
          /\ input_files = << >>
          /\ \A f \in CsvNames : starts[f] = 0 /\ artifact[f] = "none"
          /\ OutputDirUntouched

\* The generator raised in a job with input files, an output directory of
\* an earlier run and cores for a pool.
C14_Witness ==
    /\ error # "none"
    /\ pc = "failed"
    /\ src_files # {}
    /\ old_output_dir
    /\ cpu_count >= 2

\* A worker call was made after the master list was built.
C14_WitnessStarted ==
    /\ \E f \in CsvNames : starts[f] = 1
    /\ error = "none"
    /\ output_dir = "new"

\* C16 Job completion: once the master list is built and the input files
\* are listed, for every set of input files and every number of cores the
\* job does not end in error: the worker is called once for every file,
\* every call ends with the output written or an error logged, and then the
\* job is done.
C16_JobCompletion ==
    /\ pc = "failed" => failed_at \notin { "pool", "imap" }
    /\ \A f \in CsvNames : starts[f] <= 1
    /\ pc = "done" => \A f \in src_files : starts[f] = 1 /\ Terminal(f)

\* With a pool of at least one process, the job that has listed its input
\* files is done in the end.
CompletesWithPool ==
    (pc = "pool" /\ processes >= 1) ~> (pc = "done")

====
